---- MODULE Spec2Model ----
(***************************************************************************)
(* A model of tinky-termcap's detection engine, detectTermcap              *)
(* (src/utils/detect-termcap.ts), with the feature catalog                 *)
(* (src/utils/term-features.ts) it reads.                                  *)
(*                                                                         *)
(* Text is a sequence of one-character strings; the two control            *)
(* characters the catalog uses are the tokens ESC (0x1b) and BEL (0x07).   *)
(* Chunks hold ASCII only, for which Buffer.toString() returns the same    *)
(* characters.                                                             *)
(***************************************************************************)
EXTENDS Integers, Sequences, FiniteSets, TLC

\* ------------------------------------------------------------------ bounds

\* The number of data events the input stream emits in one behaviour.
MaxChunks == 3

\* ------------------------------------------------------------- characters

ESC == "ESC"
BEL == "BEL"
\* An optional string that is undefined. Strings are sequences of single
\* characters, so no string equals it.
Undefined == <<"undefined">>

Digits == {"0", "1", "2", "3", "4", "5", "6", "7", "8", "9"}
HexDigits == Digits \cup {"a", "b", "c", "d", "e", "f", "A", "B", "C", "D", "E", "F"}
\* The characters the regex atom "." does not match.
LineTerminators == {"\n", "\r"}

DigitVal(c) ==
  CASE c = "0" -> 0 [] c = "1" -> 1 [] c = "2" -> 2 [] c = "3" -> 3
    [] c = "4" -> 4 [] c = "5" -> 5 [] c = "6" -> 6 [] c = "7" -> 7
    [] c = "8" -> 8 [] c = "9" -> 9
    [] c \in {"a", "A"} -> 10 [] c \in {"b", "B"} -> 11
    [] c \in {"c", "C"} -> 12 [] c \in {"d", "D"} -> 13
    [] c \in {"e", "E"} -> 14 [] c \in {"f", "F"} -> 15

HexChar(v) ==
  CASE v = 0 -> "0" [] v = 1 -> "1" [] v = 2 -> "2" [] v = 3 -> "3"
    [] v = 4 -> "4" [] v = 5 -> "5" [] v = 6 -> "6" [] v = 7 -> "7"
    [] v = 8 -> "8" [] v = 9 -> "9" [] v = 10 -> "a" [] v = 11 -> "b"
    [] v = 12 -> "c" [] v = 13 -> "d" [] v = 14 -> "e" [] v = 15 -> "f"

\* parseInt(s, radix) of a non-empty string of digits of that radix.
RECURSIVE ParseInt(_, _)
ParseInt(s, radix) ==
  IF s = <<>> THEN 0
  ELSE ParseInt(SubSeq(s, 1, Len(s) - 1), radix) * radix + DigitVal(s[Len(s)])

\* --------------------------------------------------------- regex helpers

\* Whether the literal lit stands in buf at position i.
LitAt(buf, i, lit) ==
  /\ i >= 1
  /\ i + Len(lit) - 1 <= Len(buf)
  /\ SubSeq(buf, i, i + Len(lit) - 1) = lit

\* The length of the longest run of characters of S in buf from position i.
RECURSIVE RunLen(_, _, _)
RunLen(buf, i, S) ==
  IF i <= Len(buf) /\ buf[i] \in S THEN 1 + RunLen(buf, i + 1, S) ELSE 0

\* The least of a set of positions, or 0: a match is the leftmost one.
FirstPos(S) == IF S = {} THEN 0 ELSE CHOOSE i \in S : \A j \in S : i <= j

NoMatch == [found |-> FALSE]

\* ------------------------------------------------------- feature catalog

KittyQuery == <<ESC, "[", "?", "u">>
Osc11Query == <<ESC, "]", "1", "1", ";", "?", ESC, "\\">>
TerminalNameQuery == <<ESC, "[", ">", "q">>
ModifyOtherKeysQuery == <<ESC, "[", ">", "4", ";", "?", "m">>
DeviceAttributesQuery == <<ESC, "[", "c">>

\* Mutant: a response whose flags are 0 does not count.
KittyAtNonZero(buf, i) ==
  /\ LitAt(buf, i, <<ESC, "[", "?">>)
  /\ LET d == RunLen(buf, i + 3, Digits)
     IN  /\ d >= 1
         /\ LitAt(buf, i + 3 + d, <<"u">>)
         /\ ParseInt(SubSeq(buf, i + 3, i + 2 + d), 10) # 0

\* Mutant: the pattern lacks its final "u".
KittyAtNoFinal(buf, i) ==
  /\ LitAt(buf, i, <<ESC, "[", "?">>)
  /\ RunLen(buf, i + 3, Digits) >= 1

\* ESC \[ \? (\d+) u
KittyAt(buf, i) ==
  /\ LitAt(buf, i, <<ESC, "[", "?">>)
  /\ LET d == RunLen(buf, i + 3, Digits)
     IN  d >= 1 /\ LitAt(buf, i + 3 + d, <<"u">>)

KittyRegexTest(buf) == \E i \in 1..Len(buf) : KittyAt(buf, i)

\* The rest of the Device Attributes pattern, (;\d+)*c, from position j.
RECURSIVE DATail(_, _)
DATail(buf, j) ==
  IF LitAt(buf, j, <<"c">>) THEN TRUE
  ELSE IF LitAt(buf, j, <<";">>) /\ RunLen(buf, j + 1, Digits) >= 1
       THEN DATail(buf, j + 1 + RunLen(buf, j + 1, Digits))
       ELSE FALSE

\* Mutant: the pattern lacks its final "c" and its parameters.
DeviceAttributesAtNoFinal(buf, i) ==
  /\ LitAt(buf, i, <<ESC, "[", "?">>)
  /\ RunLen(buf, i + 3, Digits) >= 1

\* ESC \[ \? (\d+) (;\d+)* c
DeviceAttributesAt(buf, i) ==
  /\ LitAt(buf, i, <<ESC, "[", "?">>)
  /\ LET d == RunLen(buf, i + 3, Digits)
     IN  d >= 1 /\ DATail(buf, i + 3 + d)

DeviceAttributesMatch(buf) == \E i \in 1..Len(buf) : DeviceAttributesAt(buf, i)

\* ESC \[ > 4 ; (\d+) m
ModifyOtherKeysAt(buf, i) ==
  /\ LitAt(buf, i, <<ESC, "[", ">", "4", ";">>)
  /\ LET d == RunLen(buf, i + 5, Digits)
     IN  d >= 1 /\ LitAt(buf, i + 5 + d, <<"m">>)

ModifyOtherKeysMatch(buf) ==
  LET i == FirstPos({j \in 1..Len(buf) : ModifyOtherKeysAt(buf, j)})
  IN  IF i = 0 THEN NoMatch
      ELSE [found |-> TRUE,
            g1 |-> SubSeq(buf, i + 5, i + 4 + RunLen(buf, i + 5, Digits))]

\* Whether a string terminator, ESC \ or BEL, stands at position j.
TerminatorAt(buf, j) == LitAt(buf, j, <<ESC, "\\">>) \/ LitAt(buf, j, <<BEL>>)

\* The end of the lazy group (.+?) that starts at position s: the least e >= s
\* with a terminator right after it and no line terminator in s..e, or 0.
RECURSIVE LazyEnd(_, _, _)
LazyEnd(buf, s, e) ==
  IF e > Len(buf) \/ buf[e] \in LineTerminators THEN 0
  ELSE IF TerminatorAt(buf, e + 1) THEN e
  ELSE LazyEnd(buf, s, e + 1)

\* ESC P > \| (.+?) (ESC \\ | \x07)
TerminalNameAt(buf, i) ==
  /\ LitAt(buf, i, <<ESC, "P", ">", "|">>)
  /\ LazyEnd(buf, i + 4, i + 4) # 0

TerminalNameMatch(buf) ==
  LET i == FirstPos({j \in 1..Len(buf) : TerminalNameAt(buf, j)})
  IN  IF i = 0 THEN NoMatch
      ELSE [found |-> TRUE, g1 |-> SubSeq(buf, i + 4, LazyEnd(buf, i + 4, i + 4))]

Osc11Prefix == <<ESC, "]", "1", "1", ";", "r", "g", "b", ":">>

\* A colour channel ([0-9a-fA-F]{1,4}) at position p that must be followed by
\* "/": its length, or 0 when there is none (a fifth hex digit cannot be "/").
ChannelThenSlash(buf, p) ==
  LET r == RunLen(buf, p, HexDigits)
  IN  IF r >= 1 /\ r <= 4 /\ LitAt(buf, p + r, <<"/">>) THEN r ELSE 0

\* The last channel is followed by an optional terminator only, so the greedy
\* {1,4} takes up to four of the hex digits that are there.
LastChannel(buf, p) ==
  LET r == RunLen(buf, p, HexDigits) IN IF r > 4 THEN 4 ELSE r

\* ESC \] 11;rgb: (h{1,4}) / (h{1,4}) / (h{1,4}) (ESC \\ | \x07)?
Osc11At(buf, i) ==
  /\ LitAt(buf, i, Osc11Prefix)
  /\ LET p1 == i + Len(Osc11Prefix)
         r1 == ChannelThenSlash(buf, p1)
         p2 == p1 + r1 + 1
         r2 == ChannelThenSlash(buf, p2)
         p3 == p2 + r2 + 1
     IN  r1 >= 1 /\ r2 >= 1 /\ LastChannel(buf, p3) >= 1

Osc11Match(buf) ==
  LET i == FirstPos({j \in 1..Len(buf) : Osc11At(buf, j)})
  IN  IF i = 0 THEN NoMatch
      ELSE LET p1 == i + Len(Osc11Prefix)
               r1 == ChannelThenSlash(buf, p1)
               p2 == p1 + r1 + 1
               r2 == ChannelThenSlash(buf, p2)
               p3 == p2 + r2 + 1
               r3 == LastChannel(buf, p3)
           IN  [found |-> TRUE,
                g1 |-> SubSeq(buf, p1, p1 + r1 - 1),
                g2 |-> SubSeq(buf, p2, p2 + r2 - 1),
                g3 |-> SubSeq(buf, p3, p3 + r3 - 1)]

\* ------------------------------------------------------------ parseColor

\* Mutant: the scaled value is truncated, not rounded.
FloorDiv(num, den) == num \div den

\* Math.round(x) of the non-negative rational num / den.
RoundDiv(num, den) == (2 * num + den) \div (2 * den)

\* Mutant: the component is not scaled to eight bits.
ParseComponentUnscaled(hex) == ParseInt(hex, 16)

\* parseComponent followed by Math.round.
ParseComponent(hex) ==
  LET val == ParseInt(hex, 16)
  IN  CASE Len(hex) = 1 -> RoundDiv(val * 255, 15)
        [] Len(hex) = 2 -> val
        [] Len(hex) = 3 -> RoundDiv(val * 255, 4095)
        [] Len(hex) = 4 -> RoundDiv(val * 255, 65535)
        [] OTHER -> val

\* n.toString(16) of a natural number.
RECURSIVE ToString16(_)
ToString16(n) ==
  IF n < 16 THEN <<HexChar(n)>>
  ELSE ToString16(n \div 16) \o <<HexChar(n % 16)>>

\* s.padStart(2, "0")
PadStart(s) == IF Len(s) < 2 THEN <<"0">> \o s ELSE s

\* Math.round(c).toString(16).padStart(2, "0") of a rounded c.
ToHex(c) == PadStart(ToString16(c))

ParseColor(rHex, gHex, bHex) ==
  <<"#">> \o ToHex(ParseComponent(rHex)) \o ToHex(ParseComponent(gHex))
          \o ToHex(ParseComponent(bHex))

\* ------------------------------------------------------------ environment

DEFAULT_DETECTION_TIMEOUT == 1000

\* The input stream passed: none (the argument is undefined), a stream with
\* isTTY === false, a stream with isTTY === true, or an event emitter that has
\* no isTTY property.
StdinKinds == {"none", "notTTY", "tty", "plain"}

\* The output stream passed: none, a TTY, or a stream that is not a TTY.
StdoutKinds == {"none", "tty", "notTTY"}

\* The timeout argument: <<>> when it is not passed, <<ms>> when it is.
TimeoutArgs == {<<>>, <<100>>}

\* The instants, in ms after the call, the clock is observed at.
Instants == {0, 1, 10, 100, DEFAULT_DETECTION_TIMEOUT}

\* Responses a terminal may send, one data event each.
DAResponse == <<ESC, "[", "?", "6", "2", "c">>
KittyResponse == <<ESC, "[", "?", "1", "u">>
KeyModeResponse == <<ESC, "[", ">", "4", ";", "2", "m">>
NameResponse == <<ESC, "P", ">", "|", "x", "t", ESC, "\\">>
ColorResponse ==
  <<ESC, "]", "1", "1", ";", "r", "g", "b", ":",
    "1", "a", "1", "a", "/", "1", "a", "1", "a", "/", "1", "a", "1", "a",
    ESC, "\\">>

\* A Kitty response and the sentinel's response in one data event.
KittyThenDA == KittyResponse \o DAResponse

Chunks ==
  {DAResponse, KittyResponse, KeyModeResponse, NameResponse, ColorResponse,
   KittyThenDA}

\* ------------------------------------------------------------------ state

VARIABLES
  stdin, stdout, timeout,      \* the arguments of the call
  pc,                          \* "start", "writing" (inside stdout.write), "idle"
  now,                         \* ms since the call
  timerPending, timerDelay,    \* the timeout set by setTimeout, and its delay
  timersArmed,                 \* the number of setTimeout calls
  listening,                   \* onData is attached to stdin's "data" event
  attachCount,                 \* the number of stdin.on calls
  writes,                      \* the payloads passed to stdout.write
  buffer, backgroundColor, terminalName, kittyProtocol, modifyOtherKeys,
  bgReceived, kittyReceived, terminalNameReceived, modifyOtherKeysReceived,
  deviceAttributesReceived,
  promise,                     \* "none", "pending", "fulfilled"
  result,                      \* <<>> or <<the value the promise settled with>>
  resolvedAt,                  \* the instant the promise settled, or -1
  finalizedBy,                 \* the triggers that ran cleanup, in order
  emitted,                     \* the number of data events emitted
  lateChunks,                  \* the chunks emitted while onData was not attached
  stream,                      \* the bytes the terminal answers with, when scripted
  pos,                         \* how many of them the input stream has emitted
  provider,                    \* TermcapProvider: "absent", "rendered", "mounted", "unmounted"
  initialCapabilities,         \* its prop: <<>> when not given, <<info>> when given
  capabilities,                \* its state, the context's value: <<>> without a provider
  effectMounted,               \* the variable mounted of its effect
  rawModeCalls,                \* the arguments of the calls of setRawMode
  thenPending,                 \* its callback on the run's promise has yet to run
  hookError,                   \* the message of the error useTermcap threw, or ""
  hookValue,                   \* <<>> or <<what useTermcap returned>>
  other                        \* the variables of a second call on the same streams

args == <<stdin, stdout, timeout>>
feed == <<stream, pos>>
ui ==
  <<provider, initialCapabilities, capabilities, effectMounted, rawModeCalls,
    thenPending, hookError, hookValue>>
locals ==
  <<buffer, backgroundColor, terminalName, kittyProtocol, modifyOtherKeys,
    bgReceived, kittyReceived, terminalNameReceived, modifyOtherKeysReceived,
    deviceAttributesReceived>>
settled == <<promise, result, resolvedAt, finalizedBy>>
vars ==
  <<args, pc, now, timerPending, timerDelay, timersArmed, listening,
    attachCount, writes, locals, settled, emitted, lateChunks, feed, ui, other>>

TermcapInfo(ready, bg, name, kitty, mok) ==
  [isReady |-> ready, backgroundColor |-> bg, terminalName |-> name,
   kittyProtocol |-> kitty, modifyOtherKeys |-> mok]

\* Mutant: the defaults are not marked ready.
defaultResultNotReady == TermcapInfo(FALSE, Undefined, Undefined, FALSE, FALSE)

defaultResult == TermcapInfo(TRUE, Undefined, Undefined, FALSE, FALSE)

\* The variables of a second call of detectTermcap that has not been made.
NotCalled ==
  [started |-> FALSE, startedAt |-> -1, delay |-> -1, timerPending |-> FALSE,
   listening |-> FALSE, buffer |-> <<>>, backgroundColor |-> Undefined,
   terminalName |-> Undefined, kittyProtocol |-> FALSE,
   modifyOtherKeys |-> FALSE, bgReceived |-> FALSE, kittyReceived |-> FALSE,
   terminalNameReceived |-> FALSE, modifyOtherKeysReceived |-> FALSE,
   deviceAttributesReceived |-> FALSE, promise |-> "none", result |-> <<>>,
   finalizedBy |-> <<>>]

\* The state before the call, whatever its arguments.
BeforeCall ==
  /\ pc = "start"
  /\ now = 0
  /\ timerPending = FALSE
  /\ timerDelay = -1
  /\ timersArmed = 0
  /\ listening = FALSE
  /\ attachCount = 0
  /\ writes = <<>>
  /\ buffer = <<>>
  /\ backgroundColor = Undefined
  /\ terminalName = Undefined
  /\ kittyProtocol = FALSE
  /\ modifyOtherKeys = FALSE
  /\ bgReceived = FALSE
  /\ kittyReceived = FALSE
  /\ terminalNameReceived = FALSE
  /\ modifyOtherKeysReceived = FALSE
  /\ deviceAttributesReceived = FALSE
  /\ promise = "none"
  /\ result = <<>>
  /\ resolvedAt = -1
  /\ finalizedBy = <<>>
  /\ emitted = 0
  /\ lateChunks = {}
  /\ pos = 0
  /\ other = NotCalled

\* No TermcapProvider is rendered.
NoProvider ==
  /\ provider = "absent"
  /\ initialCapabilities = <<>>
  /\ capabilities = <<>>
  /\ effectMounted = FALSE
  /\ rawModeCalls = <<>>
  /\ thenPending = FALSE
  /\ hookError = ""
  /\ hookValue = <<>>

Init ==
  /\ stdin \in StdinKinds
  /\ stdout \in StdoutKinds
  /\ timeout \in TimeoutArgs
  /\ stream = <<>>
  /\ BeforeCall
  /\ NoProvider

\* ---------------------------------------------------------- detectTermcap

\* Mutant: the sentinel's query is written first.
QueriesSentinelFirst ==
  DeviceAttributesQuery \o KittyQuery \o Osc11Query \o TerminalNameQuery
                        \o ModifyOtherKeysQuery

\* The batch of queries, the sentinel's last.
Queries ==
  KittyQuery \o Osc11Query \o TerminalNameQuery \o ModifyOtherKeysQuery
             \o DeviceAttributesQuery

\* Mutant: the check is of a missing stream, not of isTTY === false.
SkipDetectionMissingOnly(in) == in = "none"

\* Mutant: the test is !stdin.isTTY, so only a stream that says it is a TTY
\* is queried.
SkipDetectionNotTrue(in) == in # "tty"

\* if (stdin?.isTTY === false)
SkipDetection(in) == in = "notTTY"

\* The delays setTimeout(cleanup, timeout) may arm the timer with. setTimeout
\* does not know DEFAULT_DETECTION_TIMEOUT: an undefined delay is 1 ms on
\* Node.js and 0 ms by the HTML standard.
SetTimeoutDelays(t) == IF t = <<>> THEN {0, 1} ELSE {t[1]}

\* Mutant: no timer is armed.
SetTimeoutNotArmed == FALSE

\* setTimeout(cleanup, timeout): whether a timer is pending afterwards.
SetTimeout == TRUE

\* Mutant: cleanup runs at once instead of after the delay.
TimerDueAtOnce(t, delay) == TRUE

\* Whether a timer armed at 0 with this delay may fire at instant t.
TimerDue(t, delay) == t >= delay

\* Mutant: cleanup leaves the timer armed.
ClearTimeoutSkipped(pending) == pending

\* clearTimeout(timeoutId): whether the timer is pending afterwards.
ClearTimeout(pending) == FALSE

\* Mutant: cleanup leaves onData attached.
OffSkipped(attached) == attached

\* stdin?.off?.("data", onData): whether onData is attached afterwards.
Off(attached) == FALSE

\* Mutant: cleanup resolves with defaultResult, not with what was detected.
ResolveDefaults(p, r, value) == IF p = "pending" THEN <<defaultResult>> ELSE r

\* resolve(value) on a promise in state p holding r: the promise's value
\* afterwards. A settled promise ignores it.
Resolve(p, r, value) == IF p = "pending" THEN <<value>> ELSE r

\* cleanup(), called by trigger when the timer's pending state is pending and
\* the capability variables hold bg, name, kitty and mok.
Cleanup(trigger, pending, bg, name, kitty, mok) ==
  /\ timerPending' = ClearTimeout(pending)
  /\ listening' = Off(listening)
  /\ result' = Resolve(promise, result, TermcapInfo(TRUE, bg, name, kitty, mok))
  /\ promise' = "fulfilled"
  /\ resolvedAt' = IF promise = "pending" THEN now ELSE resolvedAt
  /\ finalizedBy' = Append(finalizedBy, trigger)

\* The call on a stream that is not a TTY: return defaultResult.
ReturnDefault ==
  /\ SkipDetection(stdin)
  /\ promise' = "fulfilled"
  /\ result' = <<defaultResult>>
  /\ resolvedAt' = now
  /\ pc' = "idle"
  /\ UNCHANGED <<timerPending, timerDelay, timersArmed, listening, attachCount,
                 writes, finalizedBy>>

\* Mutant: onData is attached only after stdout.write has returned.
OnAfterWrite(in) == FALSE

\* stdin?.on?.("data", onData), before the write: whether onData is attached
\* when stdout.write is called.
On(in) == in # "none"

\* The call otherwise: the promise's executor, up to its call of stdout.write.
StartDetection ==
  /\ ~SkipDetection(stdin)
  /\ promise' = "pending"
  /\ \E d \in SetTimeoutDelays(timeout) : timerDelay' = d
  /\ timerPending' = SetTimeout
  /\ timersArmed' = timersArmed + 1
  /\ listening' = On(stdin)
  /\ attachCount' = IF stdin # "none" THEN attachCount + 1 ELSE attachCount
  /\ IF stdout # "none"
     THEN writes' = Append(writes, Queries) /\ pc' = "writing"
     ELSE writes' = writes /\ pc' = "idle"
  /\ UNCHANGED <<result, resolvedAt, finalizedBy>>

\* detectTermcap(stdin, stdout, timeout), up to its call of stdout.write or
\* to its return.
Call ==
  /\ pc = "start"
  /\ (ReturnDefault \/ StartDetection)
  /\ UNCHANGED <<args, feed, now, locals, emitted, lateChunks, other>>

\* The call made by the application itself.
DetectTermcap ==
  /\ provider = "absent"
  /\ Call
  /\ UNCHANGED ui

\* stdout.write returns.
WriteReturn ==
  /\ pc = "writing"
  /\ pc' = "idle"
  /\ UNCHANGED <<args, feed, ui, other, now, timerPending, timerDelay, timersArmed, listening,
                 attachCount, writes, locals, settled, emitted, lateChunks>>

\* stdout.write throws: the catch block calls cleanup.
WriteThrow ==
  /\ pc = "writing"
  /\ pc' = "idle"
  /\ Cleanup("writeError", timerPending, backgroundColor, terminalName,
             kittyProtocol, modifyOtherKeys)
  /\ UNCHANGED <<args, feed, ui, other, now, timerDelay, timersArmed, attachCount, writes,
                 locals, emitted, lateChunks>>

\* The timer expires: the event loop, idle, calls cleanup.
TimerFire ==
  /\ pc = "idle"
  /\ timerPending
  /\ TimerDue(now, timerDelay)
  /\ Cleanup("timeout", FALSE, backgroundColor, terminalName, kittyProtocol,
             modifyOtherKeys)
  /\ UNCHANGED <<args, feed, ui, other, pc, now, timerDelay, timersArmed, attachCount, writes,
                 locals, emitted, lateChunks>>

\* Mutant: the colour check ignores bgReceived and takes the last response
\* in the buffer.
BgStepLatest(buf) ==
  LET S == {j \in 1..Len(buf) : Osc11At(buf, j)}
      i == IF S = {} THEN 0 ELSE CHOOSE j \in S : \A k \in S : k <= j
      m == IF i = 0 THEN NoMatch ELSE Osc11Match(SubSeq(buf, i, Len(buf)))
  IN  IF m.found
      THEN [received |-> TRUE, value |-> ParseColor(m.g1, m.g2, m.g3)]
      ELSE [received |-> bgReceived, value |-> backgroundColor]

\* The first four checks of onData: the capability variables after them.
BgStep(buf) ==
  LET m == IF bgReceived THEN NoMatch ELSE Osc11Match(buf)
  IN  IF m.found
      THEN [received |-> TRUE, value |-> ParseColor(m.g1, m.g2, m.g3)]
      ELSE [received |-> bgReceived, value |-> backgroundColor]

\* Mutant: any data at all counts as a Kitty response.
KittyStepOnAnyData(buf) ==
  IF ~kittyReceived /\ buf # <<>>
  THEN [received |-> TRUE, value |-> TRUE]
  ELSE [received |-> kittyReceived, value |-> kittyProtocol]

KittyStep(buf) ==
  IF ~kittyReceived /\ KittyRegexTest(buf)
  THEN [received |-> TRUE, value |-> TRUE]
  ELSE [received |-> kittyReceived, value |-> kittyProtocol]

\* Mutant: level 1 counts as support too.
LevelSupportedFromOne(level) == level >= 1

\* modifyOtherKeys = level >= 2
LevelSupported(level) == level >= 2

\* Mutant: the key-mode check ignores modifyOtherKeysReceived and takes the
\* last response in the buffer.
ModifyOtherKeysStepLatest(buf) ==
  LET S == {j \in 1..Len(buf) : ModifyOtherKeysAt(buf, j)}
      i == IF S = {} THEN 0 ELSE CHOOSE j \in S : \A k \in S : k <= j
      m == IF i = 0 THEN NoMatch
           ELSE ModifyOtherKeysMatch(SubSeq(buf, i, Len(buf)))
  IN  IF m.found
      THEN [received |-> TRUE, value |-> LevelSupported(ParseInt(m.g1, 10))]
      ELSE [received |-> modifyOtherKeysReceived, value |-> modifyOtherKeys]

ModifyOtherKeysStep(buf) ==
  LET m == IF modifyOtherKeysReceived THEN NoMatch ELSE ModifyOtherKeysMatch(buf)
  IN  IF m.found
      THEN [received |-> TRUE, value |-> LevelSupported(ParseInt(m.g1, 10))]
      ELSE [received |-> modifyOtherKeysReceived, value |-> modifyOtherKeys]

TerminalNameStep(buf) ==
  LET m == IF terminalNameReceived THEN NoMatch ELSE TerminalNameMatch(buf)
  IN  IF m.found
      THEN [received |-> TRUE, value |-> m.g1]
      ELSE [received |-> terminalNameReceived, value |-> terminalName]

\* The last check of onData: whether it calls cleanup.
SentinelStep(buf) == ~deviceAttributesReceived /\ DeviceAttributesMatch(buf)

\* Mutant: the chunk is put in front of the buffer.
AccumulatePrepend(buf, chunk) == chunk \o buf

\* Mutant: the patterns are tested against the new chunk alone.
AccumulateChunkOnly(buf, chunk) == chunk

\* buffer += data.toString()
Accumulate(buf, chunk) == buf \o chunk

\* onData(chunk).
OnData(chunk) ==
  LET buf == Accumulate(buffer, chunk)
      bg == BgStep(buf)
      kitty == KittyStep(buf)
      mok == ModifyOtherKeysStep(buf)
      name == TerminalNameStep(buf)
  IN  /\ buffer' = buf
      /\ bgReceived' = bg.received
      /\ backgroundColor' = bg.value
      /\ kittyReceived' = kitty.received
      /\ kittyProtocol' = kitty.value
      /\ modifyOtherKeysReceived' = mok.received
      /\ modifyOtherKeys' = mok.value
      /\ terminalNameReceived' = name.received
      /\ terminalName' = name.value
      /\ IF SentinelStep(buf)
         THEN /\ deviceAttributesReceived' = TRUE
              /\ Cleanup("sentinel", timerPending, bg.value, name.value,
                         kitty.value, mok.value)
         ELSE UNCHANGED <<deviceAttributesReceived, timerPending, listening,
                          settled>>

\* The input stream emits a data event: from the event loop, or from inside
\* stdout.write when the sink answers synchronously. Every attached listener
\* is called; with none attached the chunk reaches no one.
Emit(chunk) ==
  /\ pc \in {"writing", "idle"}
  /\ stdin # "none"
  /\ emitted < MaxChunks
  /\ emitted' = emitted + 1
  /\ IF listening
     THEN OnData(chunk) /\ UNCHANGED lateChunks
     ELSE /\ lateChunks' = lateChunks \cup {chunk}
          /\ UNCHANGED <<locals, timerPending, listening, settled>>
  /\ UNCHANGED <<args, feed, ui, pc, now, timerDelay, timersArmed, attachCount, writes>>

\* A data event while no second call has a listener of its own attached.
EmitData(chunk) == Emit(chunk) /\ UNCHANGED other

\* Time passes, to the next instant the clock is observed at, while the
\* executor is not running and a timer is pending.
Tick ==
  /\ pc = "idle"
  /\ timerPending
  /\ \E t \in Instants :
       /\ t > now
       /\ \A u \in Instants : u > now => t <= u
       /\ now' = t
  /\ UNCHANGED <<args, feed, ui, other, pc, timerPending, timerDelay, timersArmed, listening,
                 attachCount, writes, locals, settled, emitted, lateChunks>>

Next ==
  \/ DetectTermcap
  \/ WriteReturn
  \/ WriteThrow
  \/ TimerFire
  \/ \E chunk \in Chunks : EmitData(chunk)
  \/ Tick

Spec == Init /\ [][Next]_vars

\* The event loop runs a timer that is due, stdout.write ends, and time passes.
FairSpec ==
  /\ Spec
  /\ WF_vars(DetectTermcap)
  /\ WF_vars(WriteReturn \/ WriteThrow)
  /\ WF_vars(TimerFire)
  /\ WF_vars(Tick)

\* ------------------------------------------------------ scripted answers

\* The string terminator ST in its two-character form.
ST == <<ESC, "\\">>

\* The responses in the formats the catalog documents.
KittyAnswer(flags) == <<ESC, "[", "?">> \o flags \o <<"u">>
KeyModeAnswer(level) == <<ESC, "[", ">", "4", ";">> \o level \o <<"m">>
NameAnswer(name, st) == <<ESC, "P", ">", "|">> \o name \o st
ColorAnswer(r, g, b, st) ==
  Osc11Prefix \o r \o <<"/">> \o g \o <<"/">> \o b \o st

\* The flag values and levels the scripted terminals answer with.
KittyFlags == {<<"0">>, <<"1">>, <<"3", "1">>}
KeyModeLevels == {<<"0">>, <<"1">>, <<"2">>, <<"3">>}

\* A terminal that answers all five queries, in the order they were sent.
FullAnswer ==
  KittyResponse \o ColorResponse \o NameResponse \o KeyModeResponse
                \o DAResponse

\* A terminal whose name is empty, its colour answer following the name's.
EmptyNameAnswer == NameAnswer(<<>>, ST) \o ColorResponse \o DAResponse

\* The answers whose delivery is cut into data events at every position.
\* Each ends with the sentinel's response.
SplitStreams ==
  {DAResponse, FullAnswer, EmptyNameAnswer,
   NameAnswer(<<"x", "t">>, <<BEL>>) \o DAResponse}
    \cup {KittyAnswer(f) \o DAResponse : f \in KittyFlags}
    \cup {KeyModeAnswer(l) \o DAResponse : l \in KeyModeLevels}

\* Colour channels of one to four hex digits, in either case.
Channels ==
  {<<"0">>, <<"f">>, <<"1", "a">>, <<"E", "5">>, <<"8", "0", "0">>,
   <<"f", "F", "f">>, <<"1", "a", "1", "a">>, <<"0", "0", "8", "0">>}

\* The answers that differ in the background colour alone.
ColorStreams ==
  {ColorAnswer(r, g, b, st) \o DAResponse :
     r \in Channels, g \in Channels, b \in Channels, st \in {ST, <<BEL>>}}

\* What a run resolves with when the whole answer s arrives as one data event
\* and its sentinel finalizes the run: onData on an empty buffer, then cleanup.
OneChunk(s) ==
  LET bg == Osc11Match(s)
      name == TerminalNameMatch(s)
      mok == ModifyOtherKeysMatch(s)
  IN  TermcapInfo(TRUE,
                  IF bg.found THEN ParseColor(bg.g1, bg.g2, bg.g3) ELSE Undefined,
                  IF name.found THEN name.g1 ELSE Undefined,
                  KittyRegexTest(s),
                  mok.found /\ LevelSupported(ParseInt(mok.g1, 10)))

\* The input stream emits the next n bytes of the scripted answer as one data
\* event.
EmitPiece(n) ==
  /\ pc \in {"writing", "idle"}
  /\ n >= 1
  /\ pos + n <= Len(stream)
  /\ pos' = pos + n
  /\ emitted' = emitted + 1
  /\ IF listening
     THEN OnData(SubSeq(stream, pos + 1, pos + n))
     ELSE UNCHANGED <<locals, timerPending, listening, settled>>
  /\ UNCHANGED <<args, ui, other, stream, pc, now, timerDelay, timersArmed, attachCount,
                 writes, lateChunks>>

\* The scripted answer arrives in data events cut at any positions.
EmitAnyPiece == \E n \in 1..Len(stream) : EmitPiece(n)

\* What is left of the scripted answer arrives as one data event.
EmitRest == EmitPiece(Len(stream) - pos)

\* A call with both streams TTYs and a 100 ms timeout, answered by the script.
ScriptedCall ==
  /\ stdin = "tty"
  /\ stdout = "tty"
  /\ timeout = <<100>>
  /\ BeforeCall
  /\ NoProvider

SplitInit == stream \in SplitStreams /\ ScriptedCall

SplitNext ==
  \/ DetectTermcap
  \/ WriteReturn
  \/ EmitAnyPiece
  \/ TimerFire
  \/ Tick

\* Runs whose answer is cut into data events at arbitrary positions.
SplitSpec == SplitInit /\ [][SplitNext]_vars

ColorInit == stream \in ColorStreams /\ ScriptedCall

ColorNext ==
  \/ DetectTermcap
  \/ WriteReturn
  \/ EmitRest
  \/ TimerFire
  \/ Tick

\* Runs over background colours of every channel width, each answer one data
\* event.
ColorSpec == ColorInit /\ [][ColorNext]_vars

\* ---------------------------------------------------------- mock terminals

\* The chunk the test of injected streams and the documentation's example
\* emit as the Device Attributes response: its parameter list ends in ";".
DASemicolon == <<ESC, "[", "?", "6", "2", ";", "c">>

\* The answers of the mock terminals: a response or two, then DASemicolon,
\* and one that ends in a Device Attributes response with a parameter.
MockStreams ==
  {DASemicolon, ColorResponse \o DASemicolon, NameResponse \o DASemicolon,
   KittyResponse \o DASemicolon, KeyModeResponse \o DASemicolon,
   ColorResponse \o DAResponse}

\* Where the response that starts after position p of the answer s ends:
\* before the next ESC that does not belong to a string terminator.
ResponseEnd(s, p) ==
  CHOOSE e \in (p + 1)..Len(s) :
    /\ e = Len(s) \/ (s[e + 1] = ESC /\ ~LitAt(s, e + 1, ST))
    /\ \A i \in (p + 1)..(e - 1) : ~(s[i + 1] = ESC /\ ~LitAt(s, i + 1, ST))

\* stdin.emit("data", response): the next response of the answer, whole.
EmitResponse ==
  /\ pos < Len(stream)
  /\ EmitPiece(ResponseEnd(stream, pos) - pos)

MockInit == stream \in MockStreams /\ ScriptedCall

MockNext ==
  \/ DetectTermcap
  \/ WriteReturn
  \/ WriteThrow
  \/ EmitResponse
  \/ TimerFire
  \/ Tick

\* Runs against a mock terminal that emits its responses one data event each.
MockSpec == MockInit /\ [][MockNext]_vars

\* ------------------------------------------------------- repeated answers

\* Second responses for a capability, differing in value from the first.
KeyModeLevelOne == KeyModeAnswer(<<"1">>)
OtherColorResponse == ColorAnswer(<<"f">>, <<"0">>, <<"0">>, <<BEL>>)
OtherNameResponse == NameAnswer(<<"v", "t">>, <<BEL>>)

\* The data events of a terminal that may answer a query more than once.
RepeatChunks ==
  {KeyModeLevelOne, KeyModeResponse, ColorResponse, OtherColorResponse,
   NameResponse, OtherNameResponse, KittyResponse, DAResponse}

EmitRepeated == \E chunk \in RepeatChunks : EmitData(chunk)

RepeatInit == stream = <<>> /\ ScriptedCall

RepeatNext ==
  \/ DetectTermcap
  \/ WriteReturn
  \/ EmitRepeated
  \/ TimerFire
  \/ Tick

\* Runs against a terminal that repeats responses with other values.
RepeatSpec == RepeatInit /\ [][RepeatNext]_vars

\* -------------------------------------------- TermcapProvider, useTermcap

\* The state of the provider before detection completes.
defaultTermcapInfo == TermcapInfo(FALSE, Undefined, Undefined, FALSE, FALSE)

\* A value of the prop initialCapabilities, the one of the documentation.
GivenCapabilities ==
  TermcapInfo(TRUE, <<"#", "0", "0", "0", "0", "0", "0">>,
              <<"t", "e", "s", "t">>, TRUE, FALSE)

\* The prop timeout with its default, timeout = DEFAULT_DETECTION_TIMEOUT.
TimeoutProp(t) == IF t = <<>> THEN <<DEFAULT_DETECTION_TIMEOUT>> ELSE t

\* useState(initialCapabilities ?? defaultTermcapInfo)
InitialState(given) == IF given = <<>> THEN <<defaultTermcapInfo>> ELSE given

\* Mutant: the effect runs detection whatever the props.
SkipEffectNever(given) == FALSE

\* if (initialCapabilities) return;
SkipEffect(given) == given # <<>>

\* setRawMode(on)
SetRawMode(calls, on) == Append(calls, on)

\* Mutant: the callback disables raw mode when detection is over.
AfterDetectionRawModeOff(calls) == Append(calls, FALSE)

\* The callback on the run's promise leaves raw mode as it is.
AfterDetectionRawMode(calls) == calls

\* Mutant: the context is created with defaultTermcapInfo as its default.
UseContextDefault(p, caps) ==
  IF p = "absent" THEN <<defaultTermcapInfo>> ELSE caps

\* useContext(TermcapContext): <<>> for undefined, the context's default.
UseContext(p, caps) == IF p = "absent" THEN <<>> ELSE caps

\* The variables of the detection engine.
engine ==
  <<args, feed, pc, now, timerPending, timerDelay, timersArmed, listening,
    attachCount, writes, locals, settled, emitted, lateChunks, other>>

\* The promise has settled and the provider's callback on it has yet to run:
\* it runs before any other task.
MicrotaskDue == thenPending /\ promise = "fulfilled" /\ pc = "idle"

\* The provider's effect, run after its first render.
MountEffect ==
  /\ provider = "rendered"
  /\ provider' = "mounted"
  /\ IF SkipEffect(initialCapabilities)
     THEN UNCHANGED <<engine, effectMounted, rawModeCalls, thenPending>>
     ELSE /\ effectMounted' = TRUE
          /\ rawModeCalls' = SetRawMode(rawModeCalls, TRUE)
          /\ Call
          /\ thenPending' = TRUE
  /\ UNCHANGED <<initialCapabilities, capabilities, hookError, hookValue>>

\* .then((result) => { if (mounted) setCapabilities(result) })
ThenCallback ==
  /\ MicrotaskDue
  /\ thenPending' = FALSE
  /\ capabilities' = IF effectMounted THEN result ELSE capabilities
  /\ rawModeCalls' = AfterDetectionRawMode(rawModeCalls)
  /\ UNCHANGED <<engine, provider, initialCapabilities, effectMounted,
                 hookError, hookValue>>

\* Mutant: the effect returns no cleanup.
EffectCleanupMissing(m) == m

\* return () => { mounted = false }: the effect's variable mounted after the
\* cleanup (false already when the effect returned before declaring it).
EffectCleanup(m) == FALSE

\* The provider is unmounted: the effect's cleanup, if it returned one, runs.
Unmount ==
  /\ provider = "mounted"
  /\ ~MicrotaskDue
  /\ provider' = "unmounted"
  /\ effectMounted' = EffectCleanup(effectMounted)
  /\ UNCHANGED <<engine, initialCapabilities, capabilities, rawModeCalls,
                 thenPending, hookError, hookValue>>

\* A component of the tree renders and calls useTermcap().
UseTermcap ==
  /\ provider \in {"absent", "rendered", "mounted"}
  /\ ~MicrotaskDue
  /\ LET context == UseContext(provider, capabilities)
     IN  IF context = <<>>
         THEN /\ hookError' = "useTermcap must be used within a TermcapProvider"
              /\ UNCHANGED hookValue
         ELSE /\ hookValue' = context
              /\ UNCHANGED hookError
  /\ UNCHANGED <<engine, provider, initialCapabilities, capabilities,
                 effectMounted, rawModeCalls, thenPending>>

\* The data events of the terminal the provider runs in.
ProviderChunks == {ColorResponse, KittyThenDA, DAResponse}

EmitToProvider == \E chunk \in ProviderChunks : EmitData(chunk)

\* A tree with a component that calls useTermcap, under a TermcapProvider or
\* not; without one the application calls detectTermcap itself.
ProviderInit ==
  /\ provider \in {"absent", "rendered"}
  /\ initialCapabilities \in
       IF provider = "absent" THEN {<<>>} ELSE {<<>>, <<GivenCapabilities>>}
  /\ capabilities =
       IF provider = "absent" THEN <<>> ELSE InitialState(initialCapabilities)
  /\ effectMounted = FALSE
  /\ rawModeCalls = <<>>
  /\ thenPending = FALSE
  /\ hookError = ""
  /\ hookValue = <<>>
  /\ stdin \in {"tty", "notTTY"}
  /\ stdout = "tty"
  /\ timeout \in {TimeoutProp(t) : t \in TimeoutArgs}
  /\ stream = <<>>
  /\ BeforeCall

ProviderNext ==
  \/ MountEffect
  \/ ThenCallback
  \/ Unmount
  \/ UseTermcap
  \/ DetectTermcap
  \/ WriteReturn
  \/ WriteThrow
  \/ EmitToProvider
  \/ TimerFire
  \/ Tick

\* Runs of a tree with or without a TermcapProvider.
ProviderSpec == ProviderInit /\ [][ProviderNext]_vars

\* ---------------------------------------------- answers after the sentinel

\* Answers in which a capability response follows the sentinel's.
AfterStreams ==
  {DAResponse \o KittyResponse, DAResponse \o KeyModeResponse,
   DAResponse \o NameResponse, DAResponse \o ColorResponse}

AfterInit == stream \in AfterStreams /\ ScriptedCall

AfterNext ==
  \/ DetectTermcap
  \/ WriteReturn
  \/ EmitAnyPiece
  \/ TimerFire
  \/ Tick

\* Runs whose answer goes on after the sentinel's response, cut into data
\* events at arbitrary positions.
AfterSpec == AfterInit /\ [][AfterNext]_vars

\* ------------------------------------------------ two calls, one stream

\* The timeout argument of the second call.
SecondTimeouts == {10, 1000}

\* Mutant: cleanup removes every listener of the "data" event.
OffOtherRemoved(attached) == FALSE

\* stdin?.off?.("data", onData) in one call's cleanup: whether the onData of
\* another call, a different function, is attached afterwards.
OffOther(attached) == attached

\* clearTimeout(timeoutId) in one call's cleanup: whether the timer of another
\* call, which has its own timeoutId, is pending afterwards.
ClearTimeoutOther(pending) == pending

\* cleanup() of the second call, on its own variables r.
OtherCleanup(r, trigger) ==
  [r EXCEPT
     !.timerPending = ClearTimeout(r.timerPending),
     !.listening = Off(r.listening),
     !.result = Resolve(r.promise, r.result,
                        TermcapInfo(TRUE, r.backgroundColor, r.terminalName,
                                    r.kittyProtocol, r.modifyOtherKeys)),
     !.promise = "fulfilled",
     !.finalizedBy = Append(r.finalizedBy, trigger)]

\* onData(chunk) of the second call, on its own variables r.
OtherOnData(r, chunk) ==
  LET buf == Accumulate(r.buffer, chunk)
      bg == IF r.bgReceived THEN NoMatch ELSE Osc11Match(buf)
      kitty == ~r.kittyReceived /\ KittyRegexTest(buf)
      mok == IF r.modifyOtherKeysReceived THEN NoMatch
             ELSE ModifyOtherKeysMatch(buf)
      name == IF r.terminalNameReceived THEN NoMatch
              ELSE TerminalNameMatch(buf)
      checked ==
        [r EXCEPT
           !.buffer = buf,
           !.bgReceived = r.bgReceived \/ bg.found,
           !.backgroundColor =
             IF bg.found THEN ParseColor(bg.g1, bg.g2, bg.g3)
             ELSE r.backgroundColor,
           !.kittyReceived = r.kittyReceived \/ kitty,
           !.kittyProtocol = r.kittyProtocol \/ kitty,
           !.modifyOtherKeysReceived = r.modifyOtherKeysReceived \/ mok.found,
           !.modifyOtherKeys =
             IF mok.found THEN LevelSupported(ParseInt(mok.g1, 10))
             ELSE r.modifyOtherKeys,
           !.terminalNameReceived = r.terminalNameReceived \/ name.found,
           !.terminalName = IF name.found THEN name.g1 ELSE r.terminalName]
  IN  IF ~r.deviceAttributesReceived /\ DeviceAttributesMatch(buf)
      THEN OtherCleanup([checked EXCEPT !.deviceAttributesReceived = TRUE],
                        "sentinel")
      ELSE checked

\* The application calls detectTermcap(stdin, stdout, t) again, on the same
\* streams, from the event loop: the executor arms a timer, attaches its own
\* onData and writes the queries; the terminal answers after the write.
SecondCall ==
  /\ pc = "idle"
  /\ ~other.started
  /\ \E t \in SecondTimeouts :
       other' = [NotCalled EXCEPT !.started = TRUE, !.startedAt = now,
                                  !.delay = t, !.timerPending = SetTimeout,
                                  !.listening = TRUE, !.promise = "pending"]
  /\ writes' = Append(writes, Queries)
  /\ UNCHANGED <<args, feed, ui, pc, now, timerPending, timerDelay, timersArmed,
                 listening, attachCount, locals, settled, emitted, lateChunks>>

\* The timer of the second call expires: its cleanup runs.
OtherTimerFire ==
  /\ pc = "idle"
  /\ other.timerPending
  /\ TimerDue(now, other.startedAt + other.delay)
  /\ other' = OtherCleanup([other EXCEPT !.timerPending = FALSE], "timeout")
  /\ listening' = OffOther(listening)
  /\ timerPending' = ClearTimeoutOther(timerPending)
  /\ UNCHANGED <<args, feed, ui, pc, now, timerDelay, timersArmed, attachCount,
                 writes, locals, settled, emitted, lateChunks>>

\* A data event: emit calls every listener attached when it began, the first
\* call's onData and then the second's.
EmitBoth(chunk) ==
  /\ Emit(chunk)
  /\ other' = IF other.listening THEN OtherOnData(other, chunk) ELSE other

\* Time passes while either call's timer is pending.
TickBoth ==
  /\ pc = "idle"
  /\ timerPending \/ other.timerPending
  /\ \E t \in Instants :
       /\ t > now
       /\ \A u \in Instants : u > now => t <= u
       /\ now' = t
  /\ UNCHANGED <<args, feed, ui, other, pc, timerPending, timerDelay,
                 timersArmed, listening, attachCount, writes, locals, settled,
                 emitted, lateChunks>>

\* The halves of a Device Attributes response cut in two.
DAFirstHalf == SubSeq(DAResponse, 1, 5)
DASecondHalf == SubSeq(DAResponse, 6, Len(DAResponse))

\* The data events of the terminal the two calls share.
TwoRunChunks == {KittyResponse, ColorResponse, DAFirstHalf, DASecondHalf}

TwoRunInit == stream = <<>> /\ ScriptedCall

TwoRunNext ==
  \/ DetectTermcap
  \/ WriteReturn
  \/ SecondCall
  \/ \E chunk \in TwoRunChunks : EmitBoth(chunk)
  \/ TimerFire
  \/ OtherTimerFire
  \/ TickBoth

TwoRunSpec == TwoRunInit /\ [][TwoRunNext]_vars

\* ------------------------------------------------------------------ claims

\* The run took the interactive path: the executor armed its timer.
Interactive == timersArmed > 0

\* The value cleanup resolves with, from the capability variables as they are.
Detected ==
  TermcapInfo(TRUE, backgroundColor, terminalName, kittyProtocol, modifyOtherKeys)

\* C1: a run on the interactive path eventually resolves, whatever the input
\* stream emits, when the timer is allowed to fire.
C1_EventuallyResolves == (promise = "pending") ~> (promise = "fulfilled")

\* C1's case: the stream emitted chunks, none matched the sentinel's pattern,
\* and the timer resolved the run.
C1_Witness ==
  /\ Interactive
  /\ promise = "fulfilled"
  /\ finalizedBy = <<"timeout">>
  /\ emitted = MaxChunks
  /\ Len(buffer) > 0
  /\ ~DeviceAttributesMatch(buffer)

\* C2: finalization happens exactly once per run: cleanup never runs a second
\* time, whatever the interleaving of data events, timer expiry and a throwing
\* write. Stated for a call with two TTY streams and a timeout, the plain
\* interactive case.
C2_CleanupOnce ==
  (stdin = "tty" /\ stdout = "tty" /\ timeout = <<100>>) => Len(finalizedBy) <= 1

\* C3: when the accumulated buffer matches the Device Attributes pattern the
\* run has finalized in that onData call: the listener is removed, the timer
\* cancelled, and the promise resolved with isReady = true and the fields
\* populated from the buffer up to and including that chunk.
C3_SentinelFinalizes ==
  DeviceAttributesMatch(buffer) =>
    /\ ~listening
    /\ ~timerPending
    /\ promise = "fulfilled"
    /\ finalizedBy # <<>>
    /\ Head(finalizedBy) = "sentinel"
    /\ result = <<Detected>>
    /\ result[1].isReady
    /\ result[1].kittyProtocol = KittyRegexTest(buffer)
    /\ (result[1].terminalName # Undefined) = TerminalNameMatch(buffer).found
    /\ (result[1].backgroundColor # Undefined) = Osc11Match(buffer).found

\* C3's case: the chunk that carries the sentinel's response carries a Kitty
\* response too, after a chunk with the terminal's name.
C3_Witness ==
  /\ buffer = NameResponse \o KittyThenDA
  /\ promise = "fulfilled"
  /\ result[1].kittyProtocol
  /\ result[1].terminalName = <<"x", "t">>
  /\ now < timerDelay

\* C4: when the timer expires before the sentinel has matched, the run
\* resolves (it does not reject) with isReady = true and exactly the values
\* set by the chunks received before; a field with no matched response stays
\* undefined / false.
C4_TimeoutResolvesPartial ==
  (finalizedBy # <<>> /\ Head(finalizedBy) = "timeout") =>
    /\ promise = "fulfilled"
    /\ ~deviceAttributesReceived
    /\ result = <<Detected>>
    /\ result[1].isReady
    /\ result[1].kittyProtocol = KittyRegexTest(buffer)
    /\ (result[1].terminalName # Undefined) = TerminalNameMatch(buffer).found
    /\ (result[1].backgroundColor # Undefined) = Osc11Match(buffer).found
    /\ (result[1].modifyOtherKeys => ModifyOtherKeysMatch(buffer).found)

\* C4's case: a Kitty response arrived before the timer expired and nothing
\* else did.
C4_Witness ==
  /\ finalizedBy = <<"timeout">>
  /\ buffer = KittyResponse
  /\ result = <<TermcapInfo(TRUE, Undefined, Undefined, TRUE, FALSE)>>

\* C5: on the interactive path a run resolves only by the sentinel, the timer
\* or a failed write; without a sentinel and without a failed write it
\* resolves exactly once, at the timer's expiry and not before.
C5_NoEarlyResolve ==
  (Interactive /\ promise = "fulfilled") =>
    /\ finalizedBy # <<>>
    /\ Head(finalizedBy) \in {"sentinel", "timeout", "writeError"}
    /\ (Head(finalizedBy) = "sentinel" => DeviceAttributesMatch(buffer))
    /\ (Head(finalizedBy) = "timeout" => resolvedAt >= timerDelay)
    /\ (/\ ~DeviceAttributesMatch(buffer)
        /\ \A i \in 1..Len(finalizedBy) : finalizedBy[i] # "writeError")
          => finalizedBy = <<"timeout">> /\ resolvedAt >= timerDelay

\* C5's case: a write that did not fail, chunks without the sentinel, and the
\* run resolved by the timer of 100 ms at 100 ms.
C5_Witness ==
  /\ timeout = <<100>>
  /\ writes = <<Queries>>
  /\ emitted > 0
  /\ ~DeviceAttributesMatch(buffer)
  /\ finalizedBy = <<"timeout">>
  /\ resolvedAt = 100

\* C6: once the run has resolved, neither the resolved result nor a capability
\* field changes again, whatever chunks the stream emits afterwards.
C6_ResultFrozen ==
  [][promise = "fulfilled" =>
       /\ result' = result
       /\ UNCHANGED <<backgroundColor, terminalName, kittyProtocol,
                      modifyOtherKeys>>]_vars

\* C6's case: after the sentinel resolved the run, the stream emitted a Kitty
\* response, and the result still says the protocol is not supported.
C6_Witness ==
  /\ promise = "fulfilled"
  /\ finalizedBy # <<>>
  /\ Head(finalizedBy) = "sentinel"
  /\ KittyResponse \in lateChunks
  /\ ~result[1].kittyProtocol

\* C7: on an input stream with isTTY === false the call returns the defaults
\* with isReady = true, writes nothing, attaches no listener and arms no timer.
C7_NonTTYDefaults ==
  (stdin = "notTTY" /\ pc # "start") =>
    /\ promise = "fulfilled"
    /\ result = <<[isReady |-> TRUE, backgroundColor |-> Undefined,
                   terminalName |-> Undefined, kittyProtocol |-> FALSE,
                   modifyOtherKeys |-> FALSE]>>
    /\ resolvedAt = 0
    /\ writes = <<>>
    /\ attachCount = 0 /\ ~listening
    /\ timersArmed = 0 /\ ~timerPending

\* C7's case: the call was made with a TTY to write to, and the stream
\* emitted a sentinel response afterwards.
C7_Witness ==
  /\ stdin = "notTTY"
  /\ stdout = "tty"
  /\ promise = "fulfilled"
  /\ DAResponse \in lateChunks

\* C8: without an input stream the call writes no query to the output stream
\* and resolves, with the defaults, at once: not after the timeout.
C8_NoStdinImmediate ==
  (stdin = "none" /\ pc # "start") =>
    /\ writes = <<>>
    /\ (promise = "fulfilled" => result = <<defaultResult>> /\ resolvedAt = 0)

\* C9: without an output stream, or with one that is not a TTY, the call
\* attaches no data listener, writes no query and resolves, with the defaults,
\* at once: it waits neither for a response nor for the timeout. Stated for a
\* call that passes an input stream.
C9_NoStdoutImmediate ==
  (stdin # "none" /\ stdout \in {"none", "notTTY"} /\ pc # "start") =>
    /\ attachCount = 0
    /\ writes = <<>>
    /\ (promise = "fulfilled" => result = <<defaultResult>> /\ resolvedAt = 0)

\* C10: without a timeout argument the timer is armed with
\* DEFAULT_DETECTION_TIMEOUT, and a run without a sentinel does not resolve
\* before it. Stated for a call that passes an input stream.
C10_DefaultTimeout ==
  (stdin # "none" /\ timeout = <<>> /\ Interactive) =>
    /\ timerDelay = DEFAULT_DETECTION_TIMEOUT
    /\ (finalizedBy = <<"timeout">> => resolvedAt >= DEFAULT_DETECTION_TIMEOUT)

\* C11: on the interactive path the engine writes to the output stream exactly
\* once per run, and the payload is the Kitty, OSC 11, XTVERSION,
\* modifyOtherKeys and Device Attributes queries in that order; nothing is
\* written before the call, on the non-interactive path, or after the one
\* write, whatever responses arrive and whether or not the timer has fired.
C11_SingleWrite ==
  /\ Len(writes) <= 1
  /\ (~Interactive => writes = <<>>)
  /\ (Interactive /\ stdout # "none" =>
        writes = << <<ESC, "[", "?", "u",
                      ESC, "]", "1", "1", ";", "?", ESC, "\\",
                      ESC, "[", ">", "q",
                      ESC, "[", ">", "4", ";", "?", "m",
                      ESC, "[", "c">> >>)

\* A run that wrote its queries, timed out, and saw a response afterwards.
C11_Witness ==
  /\ Len(writes) = 1
  /\ finalizedBy = <<"timeout">>
  /\ lateChunks # {}

\* C12: when the write of the queries throws, the engine finalizes at once:
\* the promise is fulfilled, at the instant of the call, with isReady true and
\* the field values set so far, the timer is cancelled and the listener is
\* removed.
C12_WriteFailureFinalizes ==
  /\ (\E i \in 1..Len(finalizedBy) : finalizedBy[i] = "writeError") =>
       /\ promise = "fulfilled"
       /\ Len(result) = 1
       /\ result[1].isReady
       /\ resolvedAt = 0
       /\ ~timerPending
       /\ ~listening
  /\ (finalizedBy # <<>> /\ Head(finalizedBy) = "writeError") =>
       result = <<Detected>>

\* The write threw after a Kitty response had arrived from inside it.
C12_Witness ==
  /\ finalizedBy = <<"writeError">>
  /\ kittyProtocol
  /\ Len(result) = 1
  /\ result[1].kittyProtocol

\* C13: the promise never rejects: it is only ever absent, pending or
\* fulfilled, a fulfilled promise holds a result whose isReady is true, and
\* every run comes to be fulfilled.
C13_NeverRejects ==
  /\ [](/\ promise \in {"none", "pending", "fulfilled"}
        /\ (promise = "fulfilled" => Len(result) = 1 /\ result[1].isReady))
  /\ <>(promise = "fulfilled")

\* A run on an input stream that is not a TTY, fulfilled with isReady, that
\* went on receiving data.
C13_Witness ==
  /\ stdin = "notTTY"
  /\ promise = "fulfilled"
  /\ result[1].isReady
  /\ lateChunks # {}

\* C14: a Device Attributes response cut across data events at any position
\* is recognised: the sentinel does not finalize the run while a part of the
\* answer is still to come, and when the last part has arrived in a run that
\* the timer did not end first, the sentinel has finalized it.
C14_SplitSentinelRecognised ==
  /\ (\E i \in 1..Len(finalizedBy) : finalizedBy[i] = "sentinel") =>
       pos = Len(stream)
  /\ pos = Len(stream) =>
       /\ finalizedBy # <<>>
       /\ Head(finalizedBy) = "sentinel" =>
            /\ deviceAttributesReceived
            /\ promise = "fulfilled"
            /\ ~listening

\* The Device Attributes response arrived in two data events and the second
\* finalized the run.
C14_Witness ==
  /\ stream = DAResponse
  /\ emitted = 2
  /\ buffer = DAResponse
  /\ finalizedBy = <<"sentinel">>
  /\ promise = "fulfilled"

\* C15: the resolved result does not depend on where the answer is cut into
\* data events: a run finalized by the sentinel, the answer's last response,
\* resolves with what the answer delivered as one data event resolves with.
C15_ChunkBoundaryIndependent ==
  (finalizedBy # <<>> /\ Head(finalizedBy) = "sentinel") =>
    result = <<OneChunk(stream)>>

\* C16: modifyOtherKeys is true exactly when a key-mode response was matched
\* and its level is 2 or more: a buffer holding the response of level 0 or 1
\* leaves it false, one holding the response of level 2 or 3 makes it true,
\* without a matched response it is false, and the resolved result carries
\* the same value.
C16_ModifyOtherKeysThreshold ==
  /\ \A l \in {"0", "1"} :
       (\E i \in 1..Len(buffer) :
          LitAt(buffer, i, <<ESC, "[", ">", "4", ";", l, "m">>))
         => modifyOtherKeysReceived /\ ~modifyOtherKeys
  /\ \A l \in {"2", "3"} :
       (\E i \in 1..Len(buffer) :
          LitAt(buffer, i, <<ESC, "[", ">", "4", ";", l, "m">>))
         => modifyOtherKeysReceived /\ modifyOtherKeys
  /\ (~modifyOtherKeysReceived => ~modifyOtherKeys)
  /\ (promise = "fulfilled" =>
        result[1].modifyOtherKeys = modifyOtherKeys)

\* A terminal that answered level 1: the response was matched and the run
\* resolved with modifyOtherKeys false.
C16_Witness ==
  /\ stream = KeyModeAnswer(<<"1">>) \o DAResponse
  /\ modifyOtherKeysReceived
  /\ finalizedBy = <<"sentinel">>
  /\ ~result[1].modifyOtherKeys

\* C17: kittyProtocol is true as soon as the buffer holds a response
\* ESC [ ? <digits> u, whatever the flags, 0 included; it is true only when
\* the buffer holds one, and the resolved result carries the same value.
C17_KittyAnyFlags ==
  /\ \A flags \in {<<"0">>, <<"1">>, <<"3", "1">>} :
       (\E i \in 1..Len(buffer) :
          LitAt(buffer, i, <<ESC, "[", "?">> \o flags \o <<"u">>))
         => kittyProtocol
  /\ kittyProtocol =>
       \E i \in 1..Len(buffer), d \in 1..Len(buffer) :
         /\ i + 3 + d <= Len(buffer)
         /\ LitAt(buffer, i, <<ESC, "[", "?">>)
         /\ \A k \in 0..(d - 1) : buffer[i + 3 + k] \in Digits
         /\ buffer[i + 3 + d] = "u"
  /\ (promise = "fulfilled" => result[1].kittyProtocol = kittyProtocol)

\* The response with flags 0 has just arrived, the sentinel's has not, and
\* kittyProtocol is already true.
C17_Witness ==
  /\ buffer = KittyAnswer(<<"0">>)
  /\ promise = "pending"
  /\ kittyProtocol

\* The value C18 gives a channel: the integer nearest to v * 255 / (16^w - 1)
\* for the hex string h of width w and value v, as two lowercase hex digits.
C18_Normalized(h) ==
  LET w == Len(h)
      v == ParseInt(h, 16)
      d == 16 ^ w - 1
      n == CHOOSE k \in 0..255 :
             2 * k * d - d <= 2 * v * 255 /\ 2 * v * 255 < 2 * k * d + d
      lower == <<"0", "1", "2", "3", "4", "5", "6", "7", "8", "9",
                 "a", "b", "c", "d", "e", "f">>
  IN  <<lower[(n \div 16) + 1], lower[(n % 16) + 1]>>

\* C18: each channel of a matched colour response, a hex string of width 1
\* to 4 and value v, is mapped on its own to round(v * 255 / (16^w - 1)) and
\* printed as two lowercase hex digits; 1a/1a/1a and 1a1a/1a1a/1a1a give
\* #1a1a1a and f/0/0 gives #ff0000.
C18_ColourNormalization ==
  /\ \A r \in Channels, g \in Channels, b \in Channels, st \in {ST, <<BEL>>} :
       (stream = ColorAnswer(r, g, b, st) \o DAResponse /\ bgReceived) =>
         backgroundColor =
           <<"#">> \o C18_Normalized(r) \o C18_Normalized(g)
                   \o C18_Normalized(b)
  /\ \A h \in {<<"1", "a">>, <<"1", "a", "1", "a">>} :
       (stream = ColorAnswer(h, h, h, ST) \o DAResponse /\ bgReceived) =>
         backgroundColor = <<"#", "1", "a", "1", "a", "1", "a">>
  /\ (stream = ColorAnswer(<<"f">>, <<"0">>, <<"0">>, ST) \o DAResponse
        /\ bgReceived) =>
       backgroundColor = <<"#", "f", "f", "0", "0", "0", "0">>

\* Channels of widths 3, 2 and 1, the first of which rounds up (0x800 is
\* 127.53 on the eight-bit scale), resolved as #80e5ff.
C18_Witness ==
  /\ stream = ColorAnswer(<<"8", "0", "0">>, <<"E", "5">>, <<"f">>, ST)
                \o DAResponse
  /\ finalizedBy = <<"sentinel">>
  /\ result[1].backgroundColor = <<"#", "8", "0", "e", "5", "f", "f">>

\* C19: backgroundColor, in the run and in every resolved result, is either
\* undefined or '#' followed by exactly six lowercase hex digits, two per
\* channel and so 0..255 each; a matched OSC 11 response of 1 to 4 hex digits
\* per channel, upper or lower case, always yields such a string.
C19_BackgroundColorFormat ==
  LET lowerHex == Digits \cup {"a", "b", "c", "d", "e", "f"}
      wellFormed(c) ==
        \/ c = Undefined
        \/ /\ Len(c) = 7
           /\ c[1] = "#"
           /\ \A k \in 2..7 : c[k] \in lowerHex
  IN  /\ wellFormed(backgroundColor)
      /\ (bgReceived => backgroundColor # Undefined)
      /\ (promise = "fulfilled" => wellFormed(result[1].backgroundColor))

\* An answer with upper-case digits resolved as a lowercase #rrggbb.
C19_Witness ==
  /\ stream = ColorAnswer(<<"E", "5">>, <<"f", "F", "f">>, <<"0">>, <<BEL>>)
                \o DAResponse
  /\ finalizedBy = <<"sentinel">>
  /\ result[1].backgroundColor = <<"#", "e", "5", "f", "f", "0", "0">>

\* C20: terminalName, once set, is the raw string between ESC P > | and the
\* first terminator, ESC \ or BEL, that follows it in the buffer, that
\* terminator being in the buffer; until a response is matched it is
\* undefined, and the resolved result carries the same value.
C20_TerminalNameRaw ==
  /\ terminalNameReceived =>
       \E i \in 1..Len(buffer), e \in 1..Len(buffer) :
         /\ LitAt(buffer, i, <<ESC, "P", ">", "|">>)
         /\ e >= i + 4
         /\ LitAt(buffer, e, <<ESC, "\\">>) \/ LitAt(buffer, e, <<BEL>>)
         /\ \A j \in (i + 4)..(e - 1) :
              ~(LitAt(buffer, j, <<ESC, "\\">>) \/ LitAt(buffer, j, <<BEL>>))
         /\ terminalName = SubSeq(buffer, i + 4, e - 1)
  /\ (~terminalNameReceived => terminalName = Undefined)
  /\ (promise = "fulfilled" => result[1].terminalName = terminalName)

\* C21: with a 100 ms timeout, a run whose input emitted the colour response
\* ESC]11;rgb:1a1a/1a1a/1a1a ESC\ and then ESC[?62;c, both handled by onData,
\* resolves with isReady true, backgroundColor "#1a1a1a", terminalName
\* undefined, kittyProtocol false and modifyOtherKeys false.
C21_EndToEndColour ==
  (/\ stream = ColorResponse \o DASemicolon
   /\ buffer = stream
   /\ promise = "fulfilled") =>
    result = <<[isReady |-> TRUE,
                backgroundColor |-> <<"#", "1", "a", "1", "a", "1", "a">>,
                terminalName |-> Undefined,
                kittyProtocol |-> FALSE,
                modifyOtherKeys |-> FALSE]>>

\* Both chunks were handled and the run has resolved with the colour.
C21_Witness ==
  /\ stream = ColorResponse \o DASemicolon
  /\ buffer = stream
  /\ emitted = 2
  /\ promise = "fulfilled"
  /\ result[1].backgroundColor = <<"#", "1", "a", "1", "a", "1", "a">>

\* C22: the chunk ESC[?62;c is treated as the Device Attributes response: once
\* onData has handled it the run has finished detection, finalized by the
\* sentinel at that chunk and before the timeout elapses.
C22_SemicolonSentinel ==
  (buffer # <<>> /\ LitAt(buffer, Len(buffer) - 6, DASemicolon)) =>
    /\ deviceAttributesReceived
    /\ promise = "fulfilled"
    /\ finalizedBy # <<>>
    /\ Head(finalizedBy) = "sentinel"
    /\ resolvedAt < 100

\* C23: detection is monotonic: before the call every capability field holds
\* its default (undefined or false), and no step changes a field that has left
\* its default or whose response has been matched: not back to the default
\* and not to another value.
C23_Monotonic ==
  /\ [](pc = "start" =>
          /\ backgroundColor = Undefined
          /\ terminalName = Undefined
          /\ ~kittyProtocol
          /\ ~modifyOtherKeys)
  /\ [][/\ (backgroundColor # Undefined \/ bgReceived) =>
             backgroundColor' = backgroundColor
        /\ (terminalName # Undefined \/ terminalNameReceived) =>
             terminalName' = terminalName
        /\ (kittyProtocol \/ kittyReceived) => kittyProtocol' = kittyProtocol
        /\ (modifyOtherKeys \/ modifyOtherKeysReceived) =>
             modifyOtherKeys' = modifyOtherKeys]_vars

\* A second colour response, of another colour, was handled after the first
\* and the first colour stands.
C23_Witness ==
  /\ buffer = ColorResponse \o OtherColorResponse
  /\ backgroundColor = <<"#", "1", "a", "1", "a", "1", "a">>

\* C24: once a descriptor has matched, a second response for the same
\* capability has no effect: of two key-mode responses of levels 1 and 2, of
\* two colour responses and of two names in the buffer, the fields hold the
\* value of the one that comes first, and so does the resolved result.
C24_FirstResponseWins ==
  LET first(r) == FirstPos({i \in 1..Len(buffer) : LitAt(buffer, i, r)})
      before(r, q) == first(r) # 0 /\ (first(q) = 0 \/ first(r) < first(q))
  IN  /\ before(KeyModeLevelOne, KeyModeResponse) => ~modifyOtherKeys
      /\ before(KeyModeResponse, KeyModeLevelOne) => modifyOtherKeys
      /\ before(ColorResponse, OtherColorResponse) =>
           backgroundColor = <<"#", "1", "a", "1", "a", "1", "a">>
      /\ before(OtherColorResponse, ColorResponse) =>
           backgroundColor = <<"#", "f", "f", "0", "0", "0", "0">>
      /\ before(NameResponse, OtherNameResponse) =>
           terminalName = <<"x", "t">>
      /\ before(OtherNameResponse, NameResponse) =>
           terminalName = <<"v", "t">>
      /\ (promise = "fulfilled" => result = <<Detected>>)

\* Level 1, then level 2, then the sentinel: resolved with modifyOtherKeys
\* false.
C24_Witness ==
  /\ buffer = KeyModeLevelOne \o KeyModeResponse \o DAResponse
  /\ finalizedBy = <<"sentinel">>
  /\ ~result[1].modifyOtherKeys

\* C25: useTermcap raises "useTermcap must be used within a TermcapProvider"
\* when no TermcapProvider is above the caller and never returns a value
\* then; under a provider it raises nothing and returns the provider's
\* current TermcapInfo.
C25_HookNeedsProvider ==
  /\ [](/\ provider = "absent" => hookValue = <<>>
        /\ provider # "absent" => hookError = ""
        /\ hookError \in
             {"", "useTermcap must be used within a TermcapProvider"})
  /\ [][(hookError' # hookError \/ hookValue' # hookValue) =>
          IF provider = "absent"
          THEN /\ hookError' = "useTermcap must be used within a TermcapProvider"
               /\ hookValue' = hookValue
          ELSE /\ hookValue' = capabilities
               /\ hookError' = hookError]_vars

\* The hook was called without a provider above it and threw.
C25_Witness ==
  /\ provider = "absent"
  /\ hookError = "useTermcap must be used within a TermcapProvider"
  /\ hookValue = <<>>

\* C26: a TermcapProvider without initialCapabilities exposes isReady false
\* and all-default fields from its first render until its detection run
\* resolves, and exactly the resolved result once its callback has run; given
\* initialCapabilities it exposes those throughout and performs no detection:
\* no raw-mode call, no query written, no listener attached, no timer armed.
C26_ProviderExposure ==
  /\ (provider \in {"rendered", "mounted"} /\ initialCapabilities = <<>>) =>
       /\ promise # "fulfilled" =>
            capabilities = <<[isReady |-> FALSE,
                              backgroundColor |-> Undefined,
                              terminalName |-> Undefined,
                              kittyProtocol |-> FALSE,
                              modifyOtherKeys |-> FALSE]>>
       /\ (promise = "fulfilled" /\ ~thenPending) => capabilities = result
  /\ (provider # "absent" /\ initialCapabilities # <<>>) =>
       /\ capabilities = initialCapabilities
       /\ rawModeCalls = <<>>
       /\ writes = <<>>
       /\ attachCount = 0
       /\ timersArmed = 0
       /\ promise = "none"

\* The provider's run resolved with a Kitty terminal's answer, and a
\* component under the provider has read that result from the hook.
C26_Witness ==
  /\ provider = "mounted"
  /\ initialCapabilities = <<>>
  /\ finalizedBy = <<"sentinel">>
  /\ capabilities = result
  /\ capabilities[1].kittyProtocol
  /\ hookValue = capabilities

\* C27: raw mode is changed by the provider's effect alone, which enables it
\* once as it starts detection: no step of the detection engine, called by
\* the provider or directly, calls the toggle, and nothing disables raw mode,
\* so it is still enabled after detection completes.
C27_RawModeLeftEnabled ==
  /\ [](/\ rawModeCalls \in {<<>>, <<TRUE>>}
        /\ provider = "absent" => rawModeCalls = <<>>
        /\ (provider # "absent" /\ promise # "none") => rawModeCalls = <<TRUE>>)
  /\ [][rawModeCalls' # rawModeCalls =>
          /\ provider = "rendered"
          /\ provider' = "mounted"
          /\ promise = "none"]_vars

\* Detection under the provider has completed and its callback has run; raw
\* mode was enabled once and not disabled.
C27_Witness ==
  /\ provider = "mounted"
  /\ promise = "fulfilled"
  /\ ~thenPending
  /\ capabilities = result
  /\ rawModeCalls = <<TRUE>>

\* C28: once the provider is unmounted, a run that was in flight holds no
\* resources: its data listener is detached and its timer cleared; and the
\* value it resolves to is the one it would have resolved to.
C28_UnmountReleases ==
  provider = "unmounted" =>
    /\ ~listening
    /\ ~timerPending
    /\ (promise = "fulfilled" /\ finalizedBy # <<>> => result[1].isReady)

\* C29: a capability response that follows the sentinel's in the byte stream
\* is in the result exactly when it is in the buffer at the onData call in
\* which the sentinel matches, the buffer the run finalized by the sentinel
\* is left with; a colour response counts as in the buffer from its last hex
\* digit on, its terminator being optional in the pattern.
C29_AfterSentinel ==
  LET after == Len(DAResponse) + 1
      colour == SubSeq(ColorResponse, 1, Len(ColorResponse) - Len(ST))
  IN  finalizedBy = <<"sentinel">> =>
        /\ stream = DAResponse \o KittyResponse =>
             (result[1].kittyProtocol <=> LitAt(buffer, after, KittyResponse))
        /\ stream = DAResponse \o KeyModeResponse =>
             (result[1].modifyOtherKeys
                <=> LitAt(buffer, after, KeyModeResponse))
        /\ stream = DAResponse \o NameResponse =>
             (result[1].terminalName # Undefined
                <=> LitAt(buffer, after, NameResponse))
        /\ stream = DAResponse \o ColorResponse =>
             (result[1].backgroundColor # Undefined
                <=> LitAt(buffer, after, colour))

\* C30: after a run has finalized, by the sentinel, the timer or a failed
\* write, its data listener is not attached to the input stream and it has no
\* pending timer; a run arms at most one timer, so at most one is pending
\* during it.
C30_NoResourcesLeft ==
  /\ finalizedBy # <<>> =>
       /\ promise = "fulfilled"
       /\ ~listening
       /\ ~timerPending
  /\ timersArmed <= 1
  /\ attachCount <= 1
  /\ (timerPending => timersArmed = 1 /\ promise = "pending")

\* The sentinel finalized a run, before its timer was due, that had attached
\* its listener and armed its timer.
C30_Witness ==
  /\ finalizedBy = <<"sentinel">>
  /\ attachCount = 1
  /\ timersArmed = 1
  /\ now < timerDelay
  /\ ~listening
  /\ ~timerPending

\* C31: the run's buffer is append-only: while the listener is attached it is
\* the concatenation, in arrival order, of the chunks emitted so far, that is
\* the part of the answer that has arrived; afterwards it is what it was; and
\* every step leaves the earlier buffer a prefix of the later one.
C31_BufferAppendOnly ==
  /\ [](/\ listening => buffer = SubSeq(stream, 1, pos)
        /\ Len(buffer) <= pos
        /\ buffer = SubSeq(stream, 1, Len(buffer)))
  /\ [][/\ Len(buffer) <= Len(buffer')
        /\ buffer = SubSeq(buffer', 1, Len(buffer))]_vars

\* Three data events have been handled and the buffer holds the five bytes
\* of the answer they carried, in order.
C31_Witness ==
  /\ emitted = 3
  /\ listening
  /\ pos = 5
  /\ buffer = <<ESC, "[", "?", "6", "2">>

\* C32: a capability field of the resolved result differs from its default
\* only if the buffer the run accumulated holds a match of that capability's
\* own pattern; a capability that got no response stays undefined or false,
\* and the run still resolves, with isReady true.
C32_DefaultsWithoutResponse ==
  promise = "fulfilled" =>
    /\ result[1].isReady
    /\ result[1].backgroundColor # Undefined => Osc11Match(buffer).found
    /\ result[1].terminalName # Undefined => TerminalNameMatch(buffer).found
    /\ result[1].kittyProtocol => KittyRegexTest(buffer)
    /\ result[1].modifyOtherKeys => ModifyOtherKeysMatch(buffer).found

\* A terminal that answered the colour query and the sentinel only: the
\* colour is set and the three other fields are at their defaults.
C32_Witness ==
  /\ buffer = ColorResponse \o DAResponse
  /\ finalizedBy = <<"sentinel">>
  /\ result = <<TermcapInfo(TRUE, <<"#", "1", "a", "1", "a", "1", "a">>,
                            Undefined, FALSE, FALSE)>>

\* C33: two runs in flight on the same input stream share no state: a data
\* event appends the same chunk to the buffer of each run that is attached and
\* to no other, each run keeps its own received flags (a response counts for
\* a run only if that run's own buffer holds it), each run finalizes at most
\* once and is then detached with its timer cleared, and a step that finalizes
\* only one run leaves the other's listener and timer as they were.
C33_RunsIndependent ==
  /\ [](/\ Len(finalizedBy) <= 1
        /\ Len(other.finalizedBy) <= 1
        /\ promise = "fulfilled" => ~listening /\ ~timerPending
        /\ other.promise = "fulfilled" => ~other.listening /\ ~other.timerPending
        /\ other.promise = "pending" => other.listening /\ other.timerPending
        /\ (promise = "pending" /\ pc = "idle") => listening /\ timerPending
        /\ kittyProtocol = KittyRegexTest(buffer)
        /\ other.kittyProtocol = KittyRegexTest(other.buffer)
        /\ bgReceived = Osc11Match(buffer).found
        /\ other.bgReceived = Osc11Match(other.buffer).found
        /\ deviceAttributesReceived = DeviceAttributesMatch(buffer)
        /\ other.deviceAttributesReceived = DeviceAttributesMatch(other.buffer))
  /\ [][/\ emitted' # emitted =>
             \E chunk \in TwoRunChunks :
               /\ buffer' = IF listening THEN buffer \o chunk ELSE buffer
               /\ other.buffer' =
                    IF other.listening THEN other.buffer \o chunk
                    ELSE other.buffer
        /\ (finalizedBy' # finalizedBy /\ other.finalizedBy' = other.finalizedBy)
             => /\ other.listening' = other.listening
                /\ other.timerPending' = other.timerPending
        /\ (other.finalizedBy' # other.finalizedBy /\ finalizedBy' = finalizedBy)
             => /\ listening' = listening
                /\ timerPending' = timerPending]_vars

\* C33's case: the second call was made between the two halves of the
\* sentinel's response; the first run, whose buffer holds both halves, was
\* finalized by it, and the second, whose buffer holds only the second half,
\* is still attached with its timer pending.
C33_Witness ==
  /\ finalizedBy = <<"sentinel">>
  /\ buffer = DAResponse
  /\ other.started
  /\ other.buffer = DASecondHalf
  /\ other.listening
  /\ other.timerPending
  /\ other.promise = "pending"

\* C34: while stdout.write is running the run's one timer has been armed and
\* its listener attached, and unless the run has been finalized they still
\* are: no chunk emitted during the write is missed, each is in the buffer;
\* and a write that throws leaves the run resolved, the timer cleared and the
\* listener detached.
C34_InstalledBeforeWrite ==
  /\ pc = "writing" =>
       /\ timersArmed = 1
       /\ Len(writes) = 1
       /\ stdin # "none" => attachCount = 1
       /\ finalizedBy = <<>> =>
            /\ timerPending
            /\ stdin # "none" => listening
            /\ lateChunks = {}
            /\ emitted > 0 => buffer # <<>>
  /\ (finalizedBy # <<>> /\ Head(finalizedBy) = "writeError") =>
       /\ timersArmed = 1
       /\ ~timerPending
       /\ ~listening
       /\ promise = "fulfilled"

\* C34's case: the sink answered with a Kitty response from inside
\* stdout.write, and the listener, attached already, has taken it.
C34_Witness ==
  /\ pc = "writing"
  /\ emitted = 1
  /\ buffer = KittyResponse
  /\ kittyProtocol
  /\ listening
  /\ timerPending

C36_Only(buf, response) ==
  /\ buf # <<>>
  /\ Len(buf) % Len(response) = 0
  /\ \A i \in 1..Len(buf) : buf[i] = response[((i - 1) % Len(response)) + 1]

\* C36: neither pattern matches the other's response, so a run whose buffer
\* holds only Kitty responses has not seen the sentinel and has not been
\* finalized by it, while kittyProtocol is true; and a run whose buffer holds
\* only a Device Attributes response has kittyProtocol false and was
\* finalized by the sentinel.
C36_NoStandIn ==
  /\ ~DeviceAttributesMatch(KittyResponse)
  /\ ~KittyRegexTest(DAResponse)
  /\ C36_Only(buffer, KittyResponse) =>
       /\ kittyProtocol
       /\ ~deviceAttributesReceived
       /\ \A i \in 1..Len(finalizedBy) : finalizedBy[i] # "sentinel"
       /\ promise = "fulfilled" => result[1].kittyProtocol
  /\ C36_Only(buffer, DAResponse) =>
       /\ ~kittyProtocol
       /\ ~kittyReceived
       /\ deviceAttributesReceived
       /\ finalizedBy # <<>> /\ Head(finalizedBy) = "sentinel"
       /\ ~result[1].kittyProtocol

\* C36's case: two Kitty responses arrived and no sentinel; the run waited
\* for its timeout and resolved with kittyProtocol true.
C36_Witness ==
  /\ buffer = KittyResponse \o KittyResponse
  /\ finalizedBy = <<"timeout">>
  /\ ~deviceAttributesReceived
  /\ result = <<TermcapInfo(TRUE, Undefined, Undefined, TRUE, FALSE)>>

\* C37: no step taken after the provider was unmounted changes its state;
\* the state changes only in the callback on the run's promise, which is
\* registered once, by the effect of the rendered provider, and runs once.
C37_DiscardedAfterUnmount ==
  /\ [][provider = "unmounted" => capabilities' = capabilities]_vars
  /\ [][capabilities' # capabilities =>
          /\ provider = "mounted"
          /\ effectMounted
          /\ thenPending /\ ~thenPending'
          /\ capabilities' = result]_vars
  /\ [][(thenPending' /\ ~thenPending) => provider = "rendered"]_vars
  /\ [](provider = "unmounted" => ~effectMounted)

\* C37's case: the provider was unmounted while the run was pending; the run
\* then resolved when its timer expired, the callback ran, and the state is
\* still the initial one.
C37_Witness ==
  /\ provider = "unmounted"
  /\ promise = "fulfilled"
  /\ finalizedBy = <<"timeout">>
  /\ ~thenPending
  /\ rawModeCalls # <<>>
  /\ capabilities = <<defaultTermcapInfo>>
====
